---- MODULE Spec2Model ----
(***************************************************************************)
(* The Rekall entity layer (rekall/entity.py): the per-session EntityCache *)
(* (entities_by_identity, identities_by_generator), Entity.merge and the   *)
(* find / register_entity operations.                                      *)
(*                                                                         *)
(* Vocabulary: the prose specification calls a generator a "collector",    *)
(* entity_cls a "kind", a component a "fact", entities_by_identity         *)
(* "by_identity", identities_by_generator "by_collector", collectors       *)
(* "sources" and copies_count "observation_count".                         *)
(***************************************************************************)
EXTENDS Integers, Sequences, FiniteSets, TLC

(* ------------------------------ bounds --------------------------------- *)
\* number of distinct key objects (memory offsets) in a session
NumIds == 2
\* an Entity's copies_count is kept at or below this by the guards
MaxCopies == 3
\* a generator is invoked at most this many times in one session
MaxInvocations == 2
\* the largest copies_count of an entity handed to Entity.merge
MaxCount == 2
\* register_entity calls in one session of direct registrations
MaxRegistrations == 3

(* ------------------------- values and identities ----------------------- *)
\* Python's None
None == "None"

\* a key object: anything that implements obj_vm, obj_offset and obj_type
KeyObjs == [obj_vm : {"kernel"}, obj_offset : 1..NumIds, obj_type : {"proc"}]

\* obj.BaseObjectIdentity(base_obj=key_obj): the hashable dict key of a key
\* object
BaseObjectIdentity(key_obj) ==
    <<key_obj.obj_vm, key_obj.obj_offset, key_obj.obj_type>>

Identities == {BaseObjectIdentity(k) : k \in KeyObjs}

Ident(n) == <<"kernel", n, "proc">>

\* the key_obj argument of find: None, one key object, or a
\* utils.Superposition whose variants are key objects (in order)
PlainKey(k) == [tag |-> "Plain", variants |-> <<k>>]
SuperpositionKey(ks) == [tag |-> "Superposition", variants |-> ks]
NoKey == [tag |-> None, variants |-> << >>]

\* a key object whose truth value is False (an object at offset 0, a null
\* pointer, the integer 0)
NullObj == [obj_vm |-> "kernel", obj_offset |-> 0, obj_type |-> "proc"]

\* the classes an entity can be an instance of: Entity and two subclasses
Classes == {"Entity", "Process", "User"}

\* issubclass(c, d)
IsSubclass(c, d) == c = d \/ d = "Entity"

(* ------------------------------ components ----------------------------- *)
\* components.Process(pid, parent_identity, user_identity, command,
\* arguments)
Process(pid, command) ==
    [pid |-> pid, parent_identity |-> None, user_identity |-> None,
     command |-> command, arguments |-> None]

\* components.Named(name, kind)
Named(name, kind) == [name |-> name, kind |-> kind]

\* A components value maps a component name to the set of candidate
\* components known under that name: one element when the evidence agrees,
\* several when it conflicts.
Single(fact) == {fact}
NoComponents == [k \in {} |-> {}]
OneComponent(k, fact) == [x \in {k} |-> Single(fact)]

\* utils.MergeNamedTuples(x, y, preserving=True) on one component name
\* present in both: equal content is carried over once, differing content is
\* retained as the (deduplicated) set of both.
MergeValue(a, b) == IF a = b THEN a ELSE a \cup b

\* utils.MergeNamedTuples(x.components, y.components, preserving=True)
MergeNamedTuples(x, y) ==
    [k \in DOMAIN x \cup DOMAIN y |->
        IF k \in DOMAIN x /\ k \in DOMAIN y THEN MergeValue(x[k], y[k])
        ELSE IF k \in DOMAIN x THEN x[k]
        ELSE y[k]]

(* -------------------------------- Entity ------------------------------- *)
\* attribute values of an object that never had the attribute assigned
NoAttr == {"<unset>"}

\* Entity.__init__(identity, components, collectors=frozenset(),
\* copies_count=1), as an instance of class cls; generators is the attribute
\* that register_entity assigns afterwards.
EntityInit(cls, identity, components, collectors, copies_count) ==
    [cls |-> cls, identity |-> identity, components |-> components,
     collectors |-> collectors, copies_count |-> copies_count,
     generators |-> NoAttr]

\* Entity.__eq__ / Entity.__ne__
EntityEq(x, y) == x.identity = y.identity
EntityNe(x, y) == ~EntityEq(x, y)

\* the entity slot of a result that carries an error instead
NoEntity == EntityInit(None, <<None, 0, None>>, NoComponents, {}, 0)

\* Entity.merge without the identity check
MergeUnchecked(x, y) ==
    [error |-> None,
     entity |-> EntityInit("Entity", x.identity,
                           MergeNamedTuples(x.components, y.components),
                           x.collectors \cup y.collectors,
                           x.copies_count + y.copies_count)]

\* Entity.merge keeping only x's collectors
MergeKeepingFirstCollectors(x, y) ==
    IF EntityNe(x, y)
    THEN [error |-> "AttributeError", entity |-> NoEntity]
    ELSE [error |-> None,
          entity |-> EntityInit("Entity", x.identity,
                                MergeNamedTuples(x.components, y.components),
                                x.collectors,
                                x.copies_count + y.copies_count)]

\* Entity.merge keeping x's copies_count
MergeKeepingFirstCount(x, y) ==
    IF EntityNe(x, y)
    THEN [error |-> "AttributeError", entity |-> NoEntity]
    ELSE [error |-> None,
          entity |-> EntityInit("Entity", x.identity,
                                MergeNamedTuples(x.components, y.components),
                                x.collectors \cup y.collectors,
                                x.copies_count)]

\* Entity.merge incrementing x's copies_count by one
MergeIncrementingCount(x, y) ==
    IF EntityNe(x, y)
    THEN [error |-> "AttributeError", entity |-> NoEntity]
    ELSE [error |-> None,
          entity |-> EntityInit("Entity", x.identity,
                                MergeNamedTuples(x.components, y.components),
                                x.collectors \cup y.collectors,
                                x.copies_count + 1)]

\* Entity.merge(x, y): raises AttributeError on different identities, else
\* builds a new Entity (always of class Entity itself)
Merge(x, y) ==
    IF EntityNe(x, y)
    THEN [error |-> "AttributeError", entity |-> NoEntity]
    ELSE [error |-> None,
          entity |-> EntityInit("Entity", x.identity,
                                MergeNamedTuples(x.components, y.components),
                                x.collectors \cup y.collectors,
                                x.copies_count + y.copies_count)]

\* Entity.m(attr, component): dict.get and getattr are both called with
\* keyword arguments, which neither accepts, so every call raises TypeError
\* (a dotted attr that does not split in two raises ValueError before that).
M(entity, attr, component) ==
    [error |-> "TypeError", value |-> None]

(* ----------------------------- EntityCache ----------------------------- *)
Put(f, k, v) == [x \in DOMAIN f \cup {k} |-> IF x = k THEN v ELSE f[x]]

\* register_entity recording only the last identity of a generator
RegisterEntityReplacingIdentities(c, entity, generator) ==
    LET fresh == [entity EXCEPT !.generators = {generator}]
        identity == fresh.identity
        stored == IF identity \in DOMAIN c.ebi
                  THEN Merge(fresh, c.ebi[identity]).entity
                  ELSE fresh
    IN  [c EXCEPT !.ebi = Put(c.ebi, identity, stored),
                  !.ibg = Put(c.ibg, generator, {identity}),
                  !.log = Append(@, [event |-> "register",
                                      generator |-> generator,
                                      identity |-> identity])]

\* register_entity starting entities_by_identity afresh at every call
RegisterEntityForgettingOthers(c, entity, generator) ==
    LET fresh == [entity EXCEPT !.generators = {generator}]
        identity == fresh.identity
        stored == IF identity \in DOMAIN c.ebi
                  THEN Merge(fresh, c.ebi[identity]).entity
                  ELSE fresh
        known == IF generator \in DOMAIN c.ibg THEN c.ibg[generator] ELSE {}
    IN  [c EXCEPT !.ebi = [x \in {identity} |-> stored],
                  !.ibg = Put(c.ibg, generator, known \cup {identity}),
                  !.log = Append(@, [event |-> "register",
                                      generator |-> generator,
                                      identity |-> identity])]

\* register_entity recording the identity without storing a new entity
RegisterEntityMemoOnly(c, entity, generator) ==
    LET fresh == [entity EXCEPT !.generators = {generator}]
        identity == fresh.identity
        stored == IF identity \in DOMAIN c.ebi
                  THEN Merge(fresh, c.ebi[identity]).entity
                  ELSE fresh
        known == IF generator \in DOMAIN c.ibg THEN c.ibg[generator] ELSE {}
    IN  [c EXCEPT !.ebi = IF identity \in DOMAIN c.ebi
                         THEN Put(c.ebi, identity, stored)
                         ELSE c.ebi,
                  !.ibg = Put(c.ibg, generator, known \cup {identity}),
                  !.log = Append(@, [event |-> "register",
                                      generator |-> generator,
                                      identity |-> identity])]

\* register_entity recording the identity under every known generator
RegisterEntityUnderEveryGenerator(c, entity, generator) ==
    LET fresh == [entity EXCEPT !.generators = {generator}]
        identity == fresh.identity
        stored == IF identity \in DOMAIN c.ebi
                  THEN Merge(fresh, c.ebi[identity]).entity
                  ELSE fresh
        known == IF generator \in DOMAIN c.ibg THEN c.ibg[generator] ELSE {}
    IN  [c EXCEPT !.ebi = Put(c.ebi, identity, stored),
                  !.ibg = [g \in DOMAIN c.ibg \cup {generator} |->
                             IF g \in DOMAIN c.ibg
                             THEN c.ibg[g] \cup {identity}
                             ELSE {identity}],
                  !.log = Append(@, [event |-> "register",
                                      generator |-> generator,
                                      identity |-> identity])]

\* EntityCache.register_entity(entity, generator) on the tables
\* c.ebi (entities_by_identity) and c.ibg (identities_by_generator)
RegisterEntity(c, entity, generator) ==
    LET fresh == [entity EXCEPT !.generators = {generator}]
        identity == fresh.identity
        stored == IF identity \in DOMAIN c.ebi
                  THEN Merge(fresh, c.ebi[identity]).entity
                  ELSE fresh
        known == IF generator \in DOMAIN c.ibg THEN c.ibg[generator] ELSE {}
    IN  [c EXCEPT !.ebi = Put(c.ebi, identity, stored),
                  !.ibg = Put(c.ibg, generator, known \cup {identity}),
                  !.log = Append(@, [event |-> "register",
                                      generator |-> generator,
                                      identity |-> identity])]

(* ------------------------ generators and profile ----------------------- *)
\* generator functions known to the session's profile, by __name__, in the
\* order the profile lists them
GeneratorOrder == <<"A", "B">>
GeneratorNames == {GeneratorOrder[i] : i \in DOMAIN GeneratorOrder}

\* an entity as a generator yields it: Entity(identity, components) of class
\* cls, collectors and copies_count left at their defaults
Obs(cls, n, components) == EntityInit(cls, Ident(n), components, {}, 1)

Proc100 == OneComponent("Process", Process(100, "bash"))
Proc999 == OneComponent("Process", Process(999, "bash"))
Named1 == OneComponent("Named", Named("bash", "process"))

\* the yield sequences a generator may have
YieldsA == {<< >>,
            <<Obs("Process", 1, Proc100)>>,
            <<Obs("Process", 1, Proc100), Obs("User", NumIds, Named1)>>}
YieldsB == {<< >>,
            <<Obs("Process", 1, Proc999)>>,
            <<Obs("Process", NumIds, Proc100)>>,
            <<Obs("User", NumIds, Named1), Obs("Process", 1, Proc100)>>}

\* The behaviour of each generator function: the class it is declared for,
\* the entities it yields, and whether it raises after yielding them.  A
\* generator is a pure function of the profile, so this is fixed for a
\* session.
Profiles ==
    {[g \in GeneratorNames |->
        IF g = "A" THEN [declared |-> "Process", yields |-> ya, fails |-> fa]
        ELSE [declared |-> db, yields |-> yb, fails |-> fb]] :
     ya \in YieldsA, fa \in BOOLEAN, db \in {"Process", "User"},
     yb \in YieldsB, fb \in BOOLEAN}

VARIABLES
    entities_by_identity,    \* EntityCache.entities_by_identity
    identities_by_generator, \* EntityCache.identities_by_generator
    invocations,             \* how often each generator function was called
    profile,                 \* session.profile: the generators' behaviour
    last,                    \* the last call made on the cache and its result
    mx, my, mz,              \* arguments of Entity.merge
    mout                     \* the last evaluation of Entity.merge

vars == <<entities_by_identity, identities_by_generator, invocations,
          profile, last, mx, my, mz, mout>>

\* session.profile.entity_generators(entity_cls, subclasses): the generators
\* declared for entity_cls, and for its subclasses when subclasses is set,
\* in profile order
EntityGenerators(entity_cls, subclasses) ==
    SelectSeq(GeneratorOrder,
              LAMBDA g : \/ profile[g].declared = entity_cls
                         \/ /\ subclasses
                            /\ IsSubclass(profile[g].declared, entity_cls))

\* isinstance(entity, entity_cls)
IsInstance(entity, entity_cls) == IsSubclass(entity.cls, entity_cls)

\* the loop body of lines 95-97 over the entities ys[i..] of one generator
RECURSIVE RegisterYields(_, _, _, _)
RegisterYields(c, ys, g, i) ==
    IF i > Len(ys) THEN c
    ELSE RegisterYields(RegisterEntity(c, ys[i], g), ys, g, i + 1)

\* for entity in generator(self.session.profile): register, add to results
RunGenerator(c, g) ==
    LET ys == profile[g].yields
        called == [c EXCEPT !.inv[g] = @ + 1,
                            !.log = Append(@, [event |-> "invoke",
                                               generator |-> g,
                                               identity |-> <<None, 0, None>>])]
    IN  [cache |-> RegisterYields(called, ys, g, 1),
         results |-> {ys[i].identity : i \in DOMAIN ys},
         error |-> IF profile[g].fails THEN "GeneratorError" ELSE None]

\* the for loop of lines 82-97 from generator number i on
RECURSIVE GeneratorLoop(_, _, _, _, _)

\* the loop skipping a generator that has run without adding its cached
\* identities to the results
GeneratorLoopDroppingCached(c, generators, i, results, cache_only) ==
    IF i > Len(generators)
    THEN [cache |-> c, results |-> results, error |-> None]
    ELSE LET g == generators[i] IN
         IF g \in DOMAIN c.ibg \/ cache_only
         THEN GeneratorLoop(c, generators, i + 1, results, cache_only)
         ELSE LET r == RunGenerator(c, g) IN
              IF r.error # None
              THEN [cache |-> r.cache, results |-> results \cup r.results,
                    error |-> r.error]
              ELSE GeneratorLoop(r.cache, generators, i + 1,
                                 results \cup r.results, cache_only)

\* the loop taking the generators from the last to the first
GeneratorLoopReversed(c, generators, i, results, cache_only) ==
    IF i > Len(generators)
    THEN [cache |-> c, results |-> results, error |-> None]
    ELSE LET g == generators[Len(generators) + 1 - i] IN
         IF g \in DOMAIN c.ibg
         THEN GeneratorLoop(c, generators, i + 1, results \cup c.ibg[g],
                            cache_only)
         ELSE IF cache_only
         THEN GeneratorLoop(c, generators, i + 1, results, cache_only)
         ELSE LET r == RunGenerator(c, g) IN
              IF r.error # None
              THEN [cache |-> r.cache, results |-> results \cup r.results,
                    error |-> r.error]
              ELSE GeneratorLoop(r.cache, generators, i + 1,
                                 results \cup r.results, cache_only)

\* the loop running again a generator that has run and raised
GeneratorLoopRetryingFailed(c, generators, i, results, cache_only) ==
    IF i > Len(generators)
    THEN [cache |-> c, results |-> results, error |-> None]
    ELSE LET g == generators[i] IN
         IF g \in DOMAIN c.ibg /\ ~profile[g].fails
         THEN GeneratorLoop(c, generators, i + 1, results \cup c.ibg[g],
                            cache_only)
         ELSE IF cache_only
         THEN GeneratorLoop(c, generators, i + 1, results, cache_only)
         ELSE LET r == RunGenerator(c, g) IN
              IF r.error # None
              THEN [cache |-> r.cache, results |-> results \cup r.results,
                    error |-> r.error]
              ELSE GeneratorLoop(r.cache, generators, i + 1,
                                 results \cup r.results, cache_only)

GeneratorLoop(c, generators, i, results, cache_only) ==
    IF i > Len(generators)
    THEN [cache |-> c, results |-> results, error |-> None]
    ELSE LET g == generators[i] IN
         IF g \in DOMAIN c.ibg
         THEN GeneratorLoop(c, generators, i + 1, results \cup c.ibg[g],
                            cache_only)
         ELSE IF cache_only
         THEN GeneratorLoop(c, generators, i + 1, results, cache_only)
         ELSE LET r == RunGenerator(c, g) IN
              IF r.error # None
              THEN [cache |-> r.cache, results |-> results \cup r.results,
                    error |-> r.error]
              ELSE GeneratorLoop(r.cache, generators, i + 1,
                                 results \cup r.results, cache_only)

\* _generate_entities running the generators whatever cache_only says
GenerateEntitiesUncached(c, entity_cls, include_subclasses, cache_only) ==
    LET r == GeneratorLoop(c, EntityGenerators(entity_cls, include_subclasses),
                           1, {}, FALSE)
    IN  IF r.error # None
        THEN [cache |-> r.cache, yielded |-> {}, error |-> r.error]
        ELSE [cache |-> r.cache,
              yielded |-> {r.cache.ebi[id] :
                           id \in {i \in r.results :
                                   IsInstance(r.cache.ebi[i], entity_cls)}},
              error |-> None]

\* EntityCache._generate_entities, iterated to its end
GenerateEntities(c, entity_cls, include_subclasses, cache_only) ==
    LET r == GeneratorLoop(c, EntityGenerators(entity_cls, include_subclasses),
                           1, {}, cache_only)
    IN  IF r.error # None
        THEN [cache |-> r.cache, yielded |-> {}, error |-> r.error]
        ELSE IF \E id \in r.results : id \notin DOMAIN r.cache.ebi
        THEN [cache |-> r.cache, yielded |-> {}, error |-> "KeyError"]
        ELSE [cache |-> r.cache,
              yielded |-> {r.cache.ebi[id] :
                           id \in {i \in r.results :
                                   IsInstance(r.cache.ebi[i], entity_cls)}},
              error |-> None]

\* entity_cls(key_obj=key_obj, session=self): Entity.__init__ takes neither
\* keyword (and no subclass defines another constructor), and None is not
\* callable
Construct(entity_cls, key_obj) ==
    [error |-> "TypeError", entity |-> NoEntity]

\* the for loop of lines 135-145 from variant number i on
RECURSIVE RetrieveLoop(_, _, _, _, _, _)
RetrieveLoop(c, entity_cls, key_objs, i, yielded, cache_only) ==
    IF i > Len(key_objs)
    THEN [cache |-> c, yielded |-> yielded, error |-> None]
    ELSE LET idx == BaseObjectIdentity(key_objs[i]) IN
         IF idx \in DOMAIN c.ebi
         THEN RetrieveLoop(c, entity_cls, key_objs, i + 1,
                           yielded \cup {c.ebi[idx]}, cache_only)
         ELSE IF ~cache_only
         THEN LET made == Construct(entity_cls, key_objs[i]) IN
              IF made.error # None
              THEN [cache |-> c, yielded |-> yielded, error |-> made.error]
              ELSE LET c2 == RegisterEntity(c, made.entity, "Session") IN
                   RetrieveLoop(c2, entity_cls, key_objs, i + 1,
                                yielded \cup {made.entity}, cache_only)
         ELSE RetrieveLoop(c, entity_cls, key_objs, i + 1, yielded,
                           cache_only)

\* _retrieve_entities looking up only the first variant of a superposition
RetrieveEntitiesFirstVariantOnly(c, entity_cls, key_obj, cache_only) ==
    LET key_objs == IF key_obj.tag = None THEN << >>
                    ELSE <<key_obj.variants[1]>>
    IN  RetrieveLoop(c, entity_cls, key_objs, 1, {}, cache_only)

\* EntityCache._retrieve_entities, iterated to its end
RetrieveEntities(c, entity_cls, key_obj, cache_only) ==
    LET key_objs == IF key_obj.tag = "Superposition" THEN key_obj.variants
                    ELSE IF key_obj.tag = None THEN << >>
                    ELSE key_obj.variants
    IN  RetrieveLoop(c, entity_cls, key_objs, 1, {}, cache_only)

\* the truth value of a key_obj argument: None is false, a key object is
\* true unless its value is null, a superposition has variants and is true
Truthy(key_obj) ==
    /\ key_obj.tag # None
    /\ key_obj.tag = "Plain" => key_obj.variants[1].obj_offset # 0

\* find looking up every entity when it is given neither argument
FindResultDefaultingClass(c, entity_cls, key_obj, include_subclasses, cache_only) ==
    IF Truthy(key_obj)
    THEN RetrieveEntities(c, entity_cls, key_obj, cache_only)
    ELSE GenerateEntities(c, IF entity_cls # None THEN entity_cls
                             ELSE "Entity",
                          include_subclasses, cache_only)

\* EntityCache.find, with the iterable it returns iterated to its end
FindResult(c, entity_cls, key_obj, include_subclasses, cache_only) ==
    IF Truthy(key_obj)
    THEN RetrieveEntities(c, entity_cls, key_obj, cache_only)
    ELSE IF entity_cls # None
    THEN GenerateEntities(c, entity_cls, include_subclasses, cache_only)
    ELSE [cache |-> c, yielded |-> {}, error |-> None]

(* ------------------------------- session ------------------------------- *)
\* the cache as the operators above take it; log collects, in order, the
\* generator invocations and the register_entity calls of one call
Cache == [ebi |-> entities_by_identity, ibg |-> identities_by_generator,
          inv |-> invocations, log |-> << >>]

\* what is remembered of the call before the last one, when the last call
\* repeated it with the same arguments
NoBefore == [yielded |-> {}, error |-> None]

NoCall == [op |-> "none", entity_cls |-> None, key_obj |-> NoKey,
           include_subclasses |-> TRUE, cache_only |-> FALSE,
           entity |-> NoEntity, generator |-> None,
           yielded |-> {}, error |-> None, trace |-> << >>,
           again |-> FALSE, before |-> NoBefore,
           pending |-> {}, position |-> 0, exhausted |-> FALSE]

NoMerge == [op |-> "none", left |-> [error |-> None, entity |-> NoEntity],
            right |-> [error |-> None, entity |-> NoEntity]]

\* a profile whose generators yield nothing
IdleProfile ==
    [g \in GeneratorNames |->
        [declared |-> "Process", yields |-> << >>, fails |-> FALSE]]

\* EntityCache.__init__
Init ==
    /\ entities_by_identity = << >>
    /\ identities_by_generator = << >>
    /\ invocations = [g \in GeneratorNames |-> 0]
    /\ profile \in Profiles
    /\ last = NoCall
    /\ mx = NoEntity /\ my = NoEntity /\ mz = NoEntity
    /\ mout = NoMerge

\* the guards that keep the counters within the bounds
WithinBounds(c) ==
    /\ \A g \in GeneratorNames : c.inv[g] <= MaxInvocations
    /\ \A id \in DOMAIN c.ebi : c.ebi[id].copies_count <= MaxCopies

\* the key_obj arguments of find
KeyInputs ==
    {PlainKey(k) : k \in KeyObjs}
    \cup {SuperpositionKey(<<p[1], p[2]>>) :
            p \in {q \in KeyObjs \X KeyObjs :
                      \/ q[1].obj_offset < q[2].obj_offset
                      \/ q[1].obj_offset = NumIds /\ q[2].obj_offset = 1}}

\* whether a call of find with these arguments repeats the last call
SameCall(entity_cls, key_obj, include_subclasses, cache_only) ==
    /\ last.op = "find"
    /\ last.entity_cls = entity_cls
    /\ last.key_obj = key_obj
    /\ last.include_subclasses = include_subclasses
    /\ last.cache_only = cache_only

\* list(cache.find(entity_cls, key_obj, include_subclasses, cache_only))
Find(entity_cls, key_obj, include_subclasses, cache_only) ==
    LET r == FindResult(Cache, entity_cls, key_obj, include_subclasses,
                        cache_only)
        again == SameCall(entity_cls, key_obj, include_subclasses,
                          cache_only)
    IN  /\ WithinBounds(r.cache)
        /\ entities_by_identity' = r.cache.ebi
        /\ identities_by_generator' = r.cache.ibg
        /\ invocations' = r.cache.inv
        /\ last' = [NoCall EXCEPT
                      !.op = "find", !.entity_cls = entity_cls,
                      !.key_obj = key_obj,
                      !.include_subclasses = include_subclasses,
                      !.cache_only = cache_only,
                      !.yielded = r.yielded, !.error = r.error,
                      !.trace = r.cache.log,
                      !.again = again,
                      !.before = IF again
                                 THEN [yielded |-> last.yielded,
                                       error |-> last.error]
                                 ELSE NoBefore]
        /\ UNCHANGED <<profile, mx, my, mz, mout>>

\* find by class: find(entity_cls=..., include_subclasses=..., cache_only=...)
\* and find() with no class either
FindByClass ==
    \E entity_cls \in Classes \cup {None}, include_subclasses \in BOOLEAN,
       cache_only \in BOOLEAN :
        Find(entity_cls, NoKey, include_subclasses, cache_only)

\* find by key object: find(key_obj=..., entity_cls=..., cache_only=...)
FindByKey ==
    \E key_obj \in KeyInputs \cup {PlainKey(NullObj)},
       cache_only \in BOOLEAN :
        \E entity_cls \in IF key_obj.tag = "Plain" THEN {None, "Process"}
                          ELSE {None} :
            Find(entity_cls, key_obj, TRUE, cache_only)

\* a session of find calls
Next == FindByClass \/ FindByKey

Spec == Init /\ [][Next]_vars

(* ----------------------- find, iterated step by step ------------------- *)
\* find evaluated as far as its return, without iterating the result: the
\* cache it leaves when it was given the cache c
FindCalledEagerly(c, entity_cls, key_obj, include_subclasses, cache_only) ==
    FindResult(c, entity_cls, key_obj, include_subclasses, cache_only).cache

\* EntityCache.find as far as its return statement: _retrieve_entities and
\* _generate_entities are generator functions, so calling them runs none of
\* their body, and [] is a list
FindCalled(c, entity_cls, key_obj, include_subclasses, cache_only) ==
    c

\* it = cache.find(...): the iterable is made and not yet iterated
FindCall(entity_cls, key_obj, include_subclasses, cache_only) ==
    LET c == FindCalled(Cache, entity_cls, key_obj, include_subclasses,
                        cache_only)
    IN  /\ WithinBounds(c)
        /\ entities_by_identity' = c.ebi
        /\ identities_by_generator' = c.ibg
        /\ invocations' = c.inv
        /\ last' = [NoCall EXCEPT
                      !.op = "call", !.entity_cls = entity_cls,
                      !.key_obj = key_obj,
                      !.include_subclasses = include_subclasses,
                      !.cache_only = cache_only,
                      !.trace = c.log,
                      !.position = 1]
        /\ UNCHANGED <<profile, mx, my, mz, mout>>

\* the body of _retrieve_entities from variant number i up to its next
\* yield, its end or an exception
RECURSIVE RetrieveNext(_, _, _, _, _)
RetrieveNext(c, entity_cls, key_objs, i, cache_only) ==
    IF i > Len(key_objs)
    THEN [cache |-> c, produced |-> {}, position |-> i, error |-> None,
          exhausted |-> TRUE]
    ELSE LET idx == BaseObjectIdentity(key_objs[i]) IN
         IF idx \in DOMAIN c.ebi
         THEN [cache |-> c, produced |-> {c.ebi[idx]}, position |-> i + 1,
               error |-> None, exhausted |-> FALSE]
         ELSE IF ~cache_only
         THEN LET made == Construct(entity_cls, key_objs[i]) IN
              IF made.error # None
              THEN [cache |-> c, produced |-> {}, position |-> i,
                    error |-> made.error, exhausted |-> TRUE]
              ELSE [cache |-> RegisterEntity(c, made.entity, "Session"),
                    produced |-> {made.entity}, position |-> i + 1,
                    error |-> None, exhausted |-> FALSE]
         ELSE RetrieveNext(c, entity_cls, key_objs, i + 1, cache_only)

\* next(it) on the iterable of a find by key object
NextByKey ==
    /\ last.op \in {"call", "next"}
    /\ ~last.exhausted
    /\ Truthy(last.key_obj)
    /\ LET r == RetrieveNext(Cache, last.entity_cls, last.key_obj.variants,
                             last.position, last.cache_only)
       IN  /\ WithinBounds(r.cache)
           /\ entities_by_identity' = r.cache.ebi
           /\ identities_by_generator' = r.cache.ibg
           /\ invocations' = r.cache.inv
           /\ last' = [last EXCEPT
                         !.op = "next",
                         !.yielded = @ \cup r.produced,
                         !.error = r.error,
                         !.trace = r.cache.log,
                         !.position = r.position,
                         !.exhausted = r.exhausted]
    /\ UNCHANGED <<profile, mx, my, mz, mout>>

\* the first next(it) on the iterable of a find by class: lines 75-97 run
\* to their end, then the loop of lines 102-105 runs up to its first yield
NextByClassFirst ==
    /\ last.op = "call"
    /\ ~Truthy(last.key_obj)
    /\ last.entity_cls # None
    /\ LET r == GeneratorLoop(Cache,
                              EntityGenerators(last.entity_cls,
                                               last.include_subclasses),
                              1, {}, last.cache_only)
           instances == {id \in r.results :
                           IsInstance(r.cache.ebi[id], last.entity_cls)}
       IN  /\ WithinBounds(r.cache)
           /\ entities_by_identity' = r.cache.ebi
           /\ identities_by_generator' = r.cache.ibg
           /\ invocations' = r.cache.inv
           /\ \/ /\ r.error # None
                 /\ last' = [last EXCEPT !.op = "next", !.error = r.error,
                                         !.trace = r.cache.log,
                                         !.exhausted = TRUE]
              \/ /\ r.error = None
                 /\ instances = {}
                 /\ last' = [last EXCEPT !.op = "next",
                                         !.trace = r.cache.log,
                                         !.exhausted = TRUE]
              \/ /\ r.error = None
                 /\ \E id \in instances :
                       last' = [last EXCEPT
                                  !.op = "next",
                                  !.yielded = {r.cache.ebi[id]},
                                  !.trace = r.cache.log,
                                  !.pending = instances \ {id}]
    /\ UNCHANGED <<profile, mx, my, mz, mout>>

\* a later next(it) on the iterable of a find by class: the loop of lines
\* 102-105 goes on to its next yield or to its end; a set is iterated in
\* no particular order
NextByClassLater ==
    /\ last.op = "next"
    /\ ~last.exhausted
    /\ ~Truthy(last.key_obj)
    /\ last.entity_cls # None
    /\ \/ /\ last.pending = {}
          /\ last' = [last EXCEPT !.trace = << >>, !.exhausted = TRUE]
       \/ \E id \in last.pending :
             last' = [last EXCEPT
                        !.yielded = @ \cup {entities_by_identity[id]},
                        !.trace = << >>,
                        !.pending = @ \ {id}]
    /\ UNCHANGED <<entities_by_identity, identities_by_generator,
                   invocations, profile, mx, my, mz, mout>>

\* next(it) on the [] that find returns when given neither argument
NextOfNothing ==
    /\ last.op = "call"
    /\ ~Truthy(last.key_obj)
    /\ last.entity_cls = None
    /\ last' = [last EXCEPT !.op = "next", !.exhausted = TRUE]
    /\ UNCHANGED <<entities_by_identity, identities_by_generator,
                   invocations, profile, mx, my, mz, mout>>

\* the calls of find in a session that iterates step by step
FindCallAny ==
    \/ \E entity_cls \in Classes \cup {None}, include_subclasses \in BOOLEAN,
          cache_only \in BOOLEAN :
           FindCall(entity_cls, NoKey, include_subclasses, cache_only)
    \/ \E key_obj \in KeyInputs \cup {PlainKey(NullObj)},
          cache_only \in BOOLEAN :
           FindCall("Process", key_obj, TRUE, cache_only)

NextLazy ==
    \/ FindCallAny
    \/ NextByKey
    \/ NextByClassFirst
    \/ NextByClassLater
    \/ NextOfNothing

SpecLazy == Init /\ [][NextLazy]_vars

(* --------------------------- register sessions ------------------------- *)
ProcNamed == [k \in {"Process", "Named"} |->
                IF k = "Process" THEN Single(Process(100, "sh"))
                ELSE Single(Named("bash", "process"))]

\* the entities a caller hands to register_entity
RegisterInputs ==
    {Obs(t[1], n, t[2]) :
        t \in {<<"Process", Proc100>>, <<"Process", Proc999>>,
               <<"User", Named1>>, <<"Process", ProcNamed>>},
        n \in 1..NumIds}

\* cache.register_entity(entity, generator)
\* the number of register_entity calls made on the cache so far
RECURSIVE Registrations(_, _)
Registrations(c, ids) ==
    IF ids = {} THEN 0
    ELSE LET id == CHOOSE x \in ids : TRUE
         IN  c.ebi[id].copies_count + Registrations(c, ids \ {id})

Register(entity, generator) ==
    LET c == RegisterEntity(Cache, entity, generator) IN
    /\ WithinBounds(c)
    /\ Registrations(c, DOMAIN c.ebi) <= MaxRegistrations
    /\ entities_by_identity' = c.ebi
    /\ identities_by_generator' = c.ibg
    /\ last' = [NoCall EXCEPT !.op = "register", !.entity = entity,
                              !.generator = generator]
    /\ UNCHANGED <<invocations, profile, mx, my, mz, mout>>

RegisterAny ==
    \E entity \in RegisterInputs, generator \in GeneratorNames :
        Register(entity, generator)

InitRegister ==
    /\ entities_by_identity = << >>
    /\ identities_by_generator = << >>
    /\ invocations = [g \in GeneratorNames |-> 0]
    /\ profile = IdleProfile
    /\ last = NoCall
    /\ mx = NoEntity /\ my = NoEntity /\ mz = NoEntity
    /\ mout = NoMerge

\* a session of register_entity calls
NextRegister == RegisterAny

SpecRegister == InitRegister /\ [][NextRegister]_vars

(* ------------------------------ Entity.merge --------------------------- *)
\* a Process component on which two earlier observations disagreed
ProcConflict ==
    [k \in {"Process"} |-> {Process(100, "bash"), Process(999, "bash")}]

\* the entities handed to Entity.merge as x and y
MergeInputs ==
    {EntityInit("Process", id, components, collectors, copies_count) :
        id \in Identities,
        components \in {NoComponents, Proc100, Proc999, ProcNamed,
                        ProcConflict},
        collectors \in {{}, {"A"}, {"B"}},
        copies_count \in 1..MaxCount}

\* the entities handed to Entity.merge as the third argument z
MergeInputsZ ==
    {EntityInit("Process", id, components, {"C"}, 1) :
        id \in Identities, components \in {Proc100, ProcNamed, Named1}}

InitMerge ==
    /\ entities_by_identity = << >>
    /\ identities_by_generator = << >>
    /\ invocations = [g \in GeneratorNames |-> 0]
    /\ profile = IdleProfile
    /\ last = NoCall
    /\ mx \in MergeInputs /\ my \in MergeInputs /\ mz \in MergeInputsZ
    /\ mout = NoMerge

\* Entity.merge(r.entity, z) where r is the outcome of an earlier merge: the
\* earlier exception propagates
MergeAfter(r, z) == IF r.error # None THEN r ELSE Merge(r.entity, z)

\* Entity.merge(z, r.entity), likewise
MergeBefore(z, r) == IF r.error # None THEN r ELSE Merge(z, r.entity)

\* Entity.merge(x, y) and Entity.merge(y, x)
MergePair ==
    /\ mout' = [op |-> "pair", left |-> Merge(mx, my),
                right |-> Merge(my, mx)]
    /\ UNCHANGED <<entities_by_identity, identities_by_generator,
                   invocations, profile, last, mx, my, mz>>

\* Entity.merge(x, x)
MergeSelf ==
    /\ mout' = [op |-> "self", left |-> Merge(mx, mx),
                right |-> Merge(mx, mx)]
    /\ UNCHANGED <<entities_by_identity, identities_by_generator,
                   invocations, profile, last, mx, my, mz>>

\* Entity.merge(Entity.merge(x, y), z) and
\* Entity.merge(x, Entity.merge(y, z))
MergeThree ==
    /\ mout' = [op |-> "three",
                left |-> MergeAfter(Merge(mx, my), mz),
                right |-> MergeBefore(mx, Merge(my, mz))]
    /\ UNCHANGED <<entities_by_identity, identities_by_generator,
                   invocations, profile, last, mx, my, mz>>

NextMerge == MergePair \/ MergeSelf \/ MergeThree

SpecMerge == InitMerge /\ [][NextMerge]_vars

(* ------------------------- properties: find ---------------------------- *)
IdsOf(entities) == {e.identity : e \in entities}

Range(seq) == {seq[i] : i \in DOMAIN seq}

\* the last call was find by class (no key object, a class given)
LastFindByClass ==
    /\ last.op = "find"
    /\ ~Truthy(last.key_obj)
    /\ last.entity_cls # None

\* C1: over any sequence of find calls every generator is invoked at most
\* once, also one that yielded no entities.
C1_EveryGeneratorInvokedAtMostOnce ==
    \A g \in GeneratorNames : invocations[g] <= 1

\* C2: a find by class that repeats the call before it, which returned,
\* returns too, and returns entities of the same identities.
C2_RepeatedFindReturnsSameEntities ==
    (LastFindByClass /\ last.again /\ last.before.error = None)
        => /\ last.error = None
           /\ IdsOf(last.yielded) = IdsOf(last.before.yielded)

\* a find by class was repeated, ran no generator the second time and
\* returned entities
C2_Witness ==
    /\ LastFindByClass /\ last.again /\ ~last.cache_only
    /\ last.before.error = None
    /\ last.yielded # {}
    /\ \A g \in GeneratorNames : invocations[g] <= 1

\* C3: a step that is a find with cache_only=True changes neither
\* entities_by_identity nor identities_by_generator and invokes no generator.
C3_CacheOnlyFindChangesNothing ==
    [][(last'.op = "find" /\ last'.cache_only)
        => /\ entities_by_identity' = entities_by_identity
           /\ identities_by_generator' = identities_by_generator
           /\ invocations' = invocations]_vars

\* a cache-only find by class returned cached entities while one of the
\* generators for that class had not run
C3_Witness ==
    /\ LastFindByClass /\ last.cache_only
    /\ last.yielded # {}
    /\ \E g \in Range(EntityGenerators(last.entity_cls,
                                       last.include_subclasses)) :
          /\ g \notin DOMAIN identities_by_generator
          /\ invocations[g] = 0

\* C4: from every reachable cache and for all arguments, what find yields
\* with cache_only=True is a subset, by identity, of what the same find
\* yields with cache_only=False.
C4_CacheOnlyYieldsSubsetOfFull ==
    \A entity_cls \in Classes \cup {None}, key_obj \in KeyInputs \cup {NoKey},
       include_subclasses \in BOOLEAN :
        IdsOf(FindResult(Cache, entity_cls, key_obj, include_subclasses,
                         TRUE).yielded)
        \subseteq
        IdsOf(FindResult(Cache, entity_cls, key_obj, include_subclasses,
                         FALSE).yielded)

\* the identities of the variants of a key object that are registered
PresentVariants(key_obj) ==
    {BaseObjectIdentity(key_obj.variants[i]) : i \in DOMAIN key_obj.variants}
    \cap DOMAIN entities_by_identity

\* what a find by a superposition is claimed to give: the registered entity
\* of every registered variant, nothing else, and no error
SuperpositionResult ==
    /\ last.error = None
    /\ last.yielded = {entities_by_identity[id] :
                       id \in PresentVariants(last.key_obj)}

ConflictingRegistration(k) ==
    /\ last'.op = "register"
    /\ last'.entity.identity \in DOMAIN entities_by_identity
    /\ LET old == entities_by_identity[last'.entity.identity] IN
       /\ old.copies_count = 1
       /\ k \in DOMAIN old.components
       /\ k \in DOMAIN last'.entity.components
       /\ old.components[k] # last'.entity.components[k]

\* after the step the stored entity keeps both components under k
BothValuesStored(k) ==
    LET id == last'.entity.identity
        old == entities_by_identity[id]
    IN  /\ entities_by_identity'[id].components[k]
             = old.components[k] \cup last'.entity.components[k]
        /\ Cardinality(entities_by_identity'[id].components[k]) = 2

\* after the step entity.m(field, k) returns, for every field of k, the
\* values of both components
BothValuesRead(k) ==
    LET stored == entities_by_identity'[last'.entity.identity] IN
    \A fact \in stored.components[k] : \A field \in DOMAIN fact :
        /\ M(stored, field, k).error = None
        /\ M(stored, field, k).value
             = {other[field] : other \in stored.components[k]}

\* C5: registering a second observation whose component k differs from the
\* first one's leaves an entity that keeps both components under k, and
\* reading a field of k returns both values.
C5_ConflictingRegistrationsKeepBothValues ==
    [][\A k \in {"Process", "Named"} :
        ConflictingRegistration(k)
            => (BothValuesStored(k) /\ BothValuesRead(k))]_vars

(* ------------------------- properties: merge --------------------------- *)
\* equal identity, components, collectors and copies_count
SameContent(a, b) ==
    /\ a.identity = b.identity
    /\ a.components = b.components
    /\ a.collectors = b.collectors
    /\ a.copies_count = b.copies_count

\* C6: Entity.merge of two entities with different identities raises the
\* identity-mismatch error and returns no entity, whatever else they hold.
C6_MergeOfDifferentIdentitiesRaises ==
    (mout.op = "pair" /\ mx.identity # my.identity)
        => /\ mout.left = [error |-> "AttributeError", entity |-> NoEntity]
           /\ mout.right = [error |-> "AttributeError", entity |-> NoEntity]

\* two entities with different identities, and the same components and
\* collectors, were merged
C6_Witness ==
    /\ mout.op = "pair"
    /\ mx.identity # my.identity
    /\ mx.components = my.components /\ mx.collectors = my.collectors
    /\ mout.left.error = "AttributeError"

\* C7: for x and y of equal identity, merge(x, y) and merge(y, x) have the
\* same identity, components, collectors and copies_count.
C7_MergeCommutes ==
    (mout.op = "pair" /\ mx.identity = my.identity)
        => /\ mout.left.error = None /\ mout.right.error = None
           /\ SameContent(mout.left.entity, mout.right.entity)

\* two entities of equal identity that disagree on the Process component and
\* have different collectors and counts were merged both ways
C7_Witness ==
    /\ mout.op = "pair"
    /\ mx.identity = my.identity
    /\ "Process" \in DOMAIN mx.components
    /\ "Process" \in DOMAIN my.components
    /\ mx.components["Process"] # my.components["Process"]
    /\ mx.collectors # my.collectors /\ mx.collectors # {}
    /\ my.collectors # {}
    /\ mx.copies_count # my.copies_count
    /\ mout.left.error = None
    /\ Cardinality(mout.left.entity.components["Process"]) >= 2

\* C8: merge(e, e) has e's identity, e's components (no conflict added)
\* and e's collectors, and twice e's copies_count.
C8_MergeWithItself ==
    mout.op = "self"
        => /\ mout.left.error = None
           /\ mout.left.entity.identity = mx.identity
           /\ mout.left.entity.components = mx.components
           /\ mout.left.entity.collectors = mx.collectors
           /\ mout.left.entity.copies_count = 2 * mx.copies_count

\* an entity with two components, a collector and a count above one was
\* merged with itself
C8_Witness ==
    /\ mout.op = "self"
    /\ DOMAIN mx.components = {"Process", "Named"}
    /\ mx.collectors # {}
    /\ mx.copies_count > 1
    /\ mout.left.entity.copies_count = 2 * mx.copies_count

\* C9: for x, y, z of equal identity, merge(merge(x, y), z) and
\* merge(x, merge(y, z)) have the same components (conflicts included),
\* collectors and copies_count.
C9_MergeAssociates ==
    (mout.op = "three" /\ mx.identity = my.identity
     /\ my.identity = mz.identity)
        => /\ mout.left.error = None /\ mout.right.error = None
           /\ SameContent(mout.left.entity, mout.right.entity)

\* three entities of equal identity, each with another Process component,
\* were merged in both groupings
C9_Witness ==
    /\ mout.op = "three"
    /\ mx.identity = my.identity /\ my.identity = mz.identity
    /\ mout.left.error = None
    /\ "Process" \in DOMAIN mout.left.entity.components
    /\ Cardinality(mout.left.entity.components["Process"]) = 3
    /\ Cardinality(mout.left.entity.collectors) = 3

(* ------------------- properties: register (continued) ------------------ *)
\* the entity stored for an identity before the step, if any
StoredBefore(id) ==
    IF id \in DOMAIN entities_by_identity
    THEN entities_by_identity[id]
    ELSE EntityInit(None, id, NoComponents, {}, 0)

\* C11: every register step leaves, for the registered identity, an entity
\* whose components are the union of the earlier ones and the new ones,
\* whose collectors are the earlier ones plus the name given to register,
\* and whose copies_count is one more than before (so the entity carries
\* all facts, all names and the number of register calls).
C11_RegisterAccumulatesFactsSourcesCount ==
    [][last'.op = "register" =>
        LET id == last'.entity.identity
            old == StoredBefore(id)
            new == entities_by_identity'[id]
        IN  /\ new.components
                 = MergeNamedTuples(last'.entity.components, old.components)
            /\ new.collectors = old.collectors \cup {last'.generator}
            /\ new.copies_count = old.copies_count + 1
            /\ new.copies_count >= 1]_vars

\* C12: a register step for an identity that was not registered stores an
\* entity with exactly the given components, collectors = {name} and
\* copies_count = 1; every register step ends with the identity in
\* identities_by_generator[name].
C12_RegisterOfNewIdentity ==
    [][last'.op = "register" =>
        LET id == last'.entity.identity
            new == entities_by_identity'[id]
        IN  /\ id \notin DOMAIN entities_by_identity
                => /\ new.components = last'.entity.components
                   /\ new.collectors = {last'.generator}
                   /\ new.copies_count = 1
            /\ last'.generator \in DOMAIN identities_by_generator'
            /\ id \in identities_by_generator'[last'.generator]]_vars

\* C16: Entity.m never raises: with the component name given, or in the
\* dotted form (no component argument), it returns the values of the field
\* when the entity has the component and the component has the field, and
\* the absent sentinel (None) otherwise.
C16_AccessorNeverRaises ==
    \A id \in DOMAIN entities_by_identity :
        LET entity == entities_by_identity[id] IN
        \A k \in {"Process", "Named", "File"} :
        \A field \in {"pid", "name", "full_path"} :
            LET known == /\ k \in DOMAIN entity.components
                         /\ \A fact \in entity.components[k] :
                               field \in DOMAIN fact
                expected == IF known
                            THEN {fact[field] : fact \in entity.components[k]}
                            ELSE {None}
            IN  /\ M(entity, field, k).error = None
                /\ {M(entity, field, k).value} = {expected}
                /\ M(entity, <<k, field>>, None).error = None
                /\ {M(entity, <<k, field>>, None).value} = {expected}

(* --------------------- properties: find (continued) -------------------- *)
\* the last call was a find that took the lookup by class
LastFindByKind ==
    /\ last.op = "find"
    /\ ~Truthy(last.key_obj)
    /\ last.entity_cls # None

\* the generators the last find by class resolved
Resolved == Range(EntityGenerators(last.entity_cls, last.include_subclasses))

\* generator g yielded an observation of identity id
YieldedBy(g, id) ==
    \E i \in DOMAIN profile[g].yields : profile[g].yields[i].identity = id

\* an observation of class K was registered for identity id, i.e. the
\* entity stored for id carries what a K observation contributed
HasKind(id, K) ==
    \E g \in DOMAIN identities_by_generator \cap GeneratorNames :
        \E i \in DOMAIN profile[g].yields :
            /\ profile[g].yields[i].identity = id
            /\ IsSubclass(profile[g].yields[i].cls, K)

\* C13: a completed find by class K yields no two entities of one identity,
\* and yields exactly the entities that a resolved generator produced and
\* that are of kind K, whether or not they were merged with observations of
\* other generators.
C13_FindByKindYieldsEntitiesOfKind ==
    (LastFindByKind /\ ~last.cache_only /\ last.error = None) =>
        /\ \A e1 \in last.yielded : \A e2 \in last.yielded :
              e1.identity = e2.identity => e1 = e2
        /\ IdsOf(last.yielded)
             = {id \in Identities :
                  /\ \E g \in Resolved : YieldedBy(g, id)
                  /\ HasKind(id, last.entity_cls)}

\* what the dispatch of C14 calls for: the lookup by key object when
\* key_obj is given, else the lookup by class when entity_cls is given
Dispatched(entity_cls, key_obj, include_subclasses, cache_only) ==
    IF key_obj.tag # None
    THEN RetrieveEntities(Cache, entity_cls, key_obj, cache_only)
    ELSE IF entity_cls # None
    THEN GenerateEntities(Cache, entity_cls, include_subclasses, cache_only)
    ELSE [cache |-> Cache, yielded |-> {}, error |-> None]

\* C14: every find step does what the lookup by key object does whenever a
\* key object is given (and then invokes no generator), whatever its value,
\* and what the lookup by class does when only a class is given.
C14_FindDispatchesOnKeyGiven ==
    [][last'.op = "find" =>
        LET r == Dispatched(last'.entity_cls, last'.key_obj,
                            last'.include_subclasses, last'.cache_only)
        IN  /\ last'.error = r.error
            /\ last'.yielded = r.yielded
            /\ invocations' = r.cache.inv
            /\ last'.key_obj.tag # None => invocations' = invocations]_vars

\* C15: in every state, the lookup by key object given None, and find given
\* neither a key object nor a class, yield nothing, raise nothing, invoke no
\* generator and leave both tables as they are.
C15_NoIdentityYieldsEmpty ==
    LET empty == [cache |-> Cache, yielded |-> {}, error |-> None] IN
    /\ \A entity_cls \in Classes \cup {None}, cache_only \in BOOLEAN :
          RetrieveEntities(Cache, entity_cls, NoKey, cache_only) = empty
    /\ \A include_subclasses \in BOOLEAN, cache_only \in BOOLEAN :
          FindResult(Cache, None, NoKey, include_subclasses, cache_only)
            = empty
    /\ (last.op = "find" /\ last.key_obj = NoKey /\ last.entity_cls = None)
          => /\ last.yielded = {}
             /\ last.error = None
             /\ last.trace = << >>

C15_Witness ==
    /\ last.op = "find"
    /\ last.key_obj = NoKey
    /\ last.entity_cls = None
    /\ ~last.cache_only
    /\ last.yielded = {}
    /\ entities_by_identity # << >>
    /\ \E g \in GeneratorNames : g \notin DOMAIN identities_by_generator

\* C17: a find by class that may run generators does not end with a
\* generator's exception: every resolved generator has been invoked, and
\* the observations of every resolved generator are registered.
C17_FailingGeneratorDoesNotAbortFind ==
    (LastFindByKind /\ ~last.cache_only) =>
        /\ last.error # "GeneratorError"
        /\ \A g \in Resolved :
              /\ invocations[g] >= 1
              /\ \A id \in Identities :
                    YieldedBy(g, id) => id \in DOMAIN entities_by_identity

\* C18: a find step by one key object that is not registered, with
\* cache_only off, registers an entity for it under the generator name
\* "Session" and yields that entity.
C18_FindByUnknownKeyCreatesEntity ==
    [][(/\ last'.op = "find"
        /\ last'.key_obj.tag = "Plain"
        /\ Truthy(last'.key_obj)
        /\ ~last'.cache_only
        /\ BaseObjectIdentity(last'.key_obj.variants[1])
              \notin DOMAIN entities_by_identity)
       => LET id == BaseObjectIdentity(last'.key_obj.variants[1]) IN
          /\ last'.error = None
          /\ id \in DOMAIN entities_by_identity'
          /\ "Session" \in DOMAIN identities_by_generator'
          /\ id \in identities_by_generator'["Session"]
          /\ last'.yielded = {entities_by_identity'[id]}]_vars

\* C19: in every state, every key of identities_by_generator is a generator
\* that has run exactly once, and its value is exactly the set of the
\* identities that generator yields.
C19_MemoHoldsExactlyTheYieldedIdentities ==
    \A g \in DOMAIN identities_by_generator :
        /\ g \in GeneratorNames
        /\ invocations[g] = 1
        /\ identities_by_generator[g] = {id \in Identities : YieldedBy(g, id)}

C19_Witness ==
    /\ DOMAIN identities_by_generator = GeneratorNames
    /\ \E g \in GeneratorNames : Cardinality(identities_by_generator[g]) = 2
    /\ last.op = "find"
    /\ last.again
    /\ last.trace = << >>

\* the place of generator g in the order the profile lookup returned
Place(generators, g) == CHOOSE i \in DOMAIN generators : generators[i] = g

\* C20: in the events of one find by class, generators are invoked in the
\* order the profile lookup returned them, and each invocation is followed
\* at once by the registration of everything that generator yields, in the
\* order it yields it; every registration belongs to the generator invoked
\* last.
C20_GeneratorsRunInOrderWithoutInterleaving ==
    LastFindByKind =>
        LET generators == EntityGenerators(last.entity_cls,
                                           last.include_subclasses)
            t == last.trace
        IN  /\ \A i \in DOMAIN t : t[i].generator \in Range(generators)
            /\ \A i \in DOMAIN t : \A j \in DOMAIN t :
                  (i < j /\ t[i].event = "invoke" /\ t[j].event = "invoke")
                  => Place(generators, t[i].generator)
                       < Place(generators, t[j].generator)
            /\ \A i \in DOMAIN t :
                  t[i].event = "invoke" =>
                     LET ys == profile[t[i].generator].yields IN
                     /\ i + Len(ys) <= Len(t)
                     /\ \A n \in DOMAIN ys :
                           /\ t[i + n].event = "register"
                           /\ t[i + n].generator = t[i].generator
                           /\ t[i + n].identity = ys[n].identity
            /\ \A j \in DOMAIN t :
                  t[j].event = "register" =>
                     \E i \in 1..(j - 1) :
                        /\ t[i].event = "invoke"
                        /\ t[i].generator = t[j].generator
                        /\ \A k \in (i + 1)..j : t[k].event = "register"

C20_Witness ==
    /\ LastFindByKind
    /\ \E i \in DOMAIN last.trace : \E j \in DOMAIN last.trace :
          /\ i < j
          /\ last.trace[i].event = "invoke"
          /\ last.trace[j].event = "invoke"
          /\ \E k \in DOMAIN last.trace :
                k > j /\ last.trace[k].event = "register"
          /\ \E k \in DOMAIN last.trace :
                i < k /\ k < j /\ last.trace[k].event = "register"

(* ------------------------ properties: the tables ----------------------- *)
\* C21: no step removes a key of entities_by_identity, a key of
\* identities_by_generator, or an identity from a generator's set.
C21_TablesNeverLoseEntries ==
    [][/\ DOMAIN entities_by_identity \subseteq DOMAIN entities_by_identity'
       /\ \A g \in DOMAIN identities_by_generator :
             /\ g \in DOMAIN identities_by_generator'
             /\ identities_by_generator[g]
                   \subseteq identities_by_generator'[g]]_vars

C21_Witness ==
    /\ last.op = "find"
    /\ last.trace # << >>
    /\ Cardinality(DOMAIN entities_by_identity) >= 2
    /\ DOMAIN identities_by_generator = GeneratorNames
    /\ \E id \in DOMAIN entities_by_identity :
          entities_by_identity[id].copies_count >= 2

\* C22: in every state, every identity recorded for a generator is a key of
\* entities_by_identity, so the lookup of a memoized generator's identities
\* (lines 102-103) raises no KeyError.
C22_MemoizedIdentitiesAreRegistered ==
    /\ \A g \in DOMAIN identities_by_generator :
          identities_by_generator[g] \subseteq DOMAIN entities_by_identity
    /\ \A entity_cls \in Classes, include_subclasses \in BOOLEAN :
          GenerateEntities(Cache, entity_cls, include_subclasses, TRUE).error
             # "KeyError"
    /\ last.error # "KeyError"

C22_Witness ==
    /\ LastFindByKind
    /\ last.trace = << >>
    /\ last.yielded # {}
    /\ \E g \in Resolved :
          /\ g \in DOMAIN identities_by_generator
          /\ Cardinality(identities_by_generator[g]) = 2

\* generator g is invoked in the events of a call
InvokedIn(trace, g) ==
    \E i \in DOMAIN trace :
        trace[i].event = "invoke" /\ trace[i].generator = g

\* C23: a generator that raised after registering observations stays a key
\* of identities_by_generator with exactly the identities it registered
\* before raising, and no later step invokes it again.
C23_FailedGeneratorStaysMemoized ==
    [][\A g \in GeneratorNames :
          /\ (profile[g].fails /\ g \in DOMAIN identities_by_generator') =>
                /\ identities_by_generator'[g]
                      = {id \in Identities : YieldedBy(g, id)}
                /\ invocations'[g] = 1
          /\ (profile[g].fails /\ g \in DOMAIN identities_by_generator) =>
                /\ g \in DOMAIN identities_by_generator'
                /\ invocations'[g] = invocations[g]
                /\ ~InvokedIn(last'.trace, g)]_vars

C23_Witness ==
    /\ LastFindByKind
    /\ ~last.cache_only
    /\ last.error = None
    /\ \E g \in Resolved :
          /\ profile[g].fails
          /\ g \in DOMAIN identities_by_generator
          /\ invocations[g] = 1
          /\ identities_by_generator[g] \subseteq IdsOf(last.yielded)

\* C25: a register step changes nothing but the entity stored for the
\* registered identity and the identity set of the named generator, and
\* after it every stored entity has the identity it is stored under.
C25_RegisterChangesOnlyItsEntries ==
    [][last'.op = "register" =>
        LET id == last'.entity.identity
            generator == last'.generator
        IN  /\ DOMAIN entities_by_identity'
                 = DOMAIN entities_by_identity \cup {id}
            /\ \A other \in DOMAIN entities_by_identity \ {id} :
                  entities_by_identity'[other] = entities_by_identity[other]
            /\ DOMAIN identities_by_generator'
                 = DOMAIN identities_by_generator \cup {generator}
            /\ \A g \in DOMAIN identities_by_generator \ {generator} :
                  identities_by_generator'[g] = identities_by_generator[g]
            /\ \A key \in DOMAIN entities_by_identity' :
                  entities_by_identity'[key].identity = key]_vars

C25_Witness ==
    /\ last.op = "register"
    /\ DOMAIN identities_by_generator = GeneratorNames
    /\ Cardinality(DOMAIN entities_by_identity) >= 2
    /\ entities_by_identity[last.entity.identity].copies_count >= 2
    /\ \E g \in GeneratorNames \ {last.generator} :
          last.entity.identity \notin identities_by_generator[g]

(* ------------------------ properties: laziness ------------------------- *)
\* the call last describes is a find by class
ByClass(call) == ~Truthy(call.key_obj) /\ call.entity_cls # None

\* C24: a step that calls find without iterating invokes no generator and
\* changes neither table; the step that hands over the first entity of a
\* find by class (cache_only off) leaves every resolved generator run, with
\* all it yields registered; the later steps of that iteration invoke no
\* generator and change neither table.
C24_FindIsLazy ==
    [][/\ last'.op = "call" =>
             /\ UNCHANGED <<entities_by_identity, identities_by_generator,
                            invocations>>
             /\ last'.trace = << >>
       /\ (last'.op = "next" /\ ByClass(last') /\ last'.yielded # {}
              /\ ~last'.cache_only) =>
             \A g \in Range(EntityGenerators(last'.entity_cls,
                                             last'.include_subclasses)) :
                /\ invocations'[g] >= 1
                /\ \A id \in Identities :
                      YieldedBy(g, id) =>
                         /\ g \in DOMAIN identities_by_generator'
                         /\ id \in identities_by_generator'[g]
                         /\ id \in DOMAIN entities_by_identity'
       /\ (last.op = "next" /\ last'.op = "next" /\ ByClass(last')) =>
             /\ UNCHANGED <<entities_by_identity, identities_by_generator,
                            invocations>>
             /\ last'.trace = << >>]_vars

C24_Witness ==
    /\ last.op = "next"
    /\ ByClass(last)
    /\ ~last.cache_only
    /\ Cardinality(last.yielded) = 2
    /\ last.pending = {}
    /\ DOMAIN identities_by_generator = GeneratorNames
    /\ \A g \in GeneratorNames : invocations[g] = 1

====
